---- MODULE Spec2Model ----
(***************************************************************************)
(* State-machine model of ESP32Oscilloscope (oscilloscope_control.py):     *)
(* the connection / demo / run state of the application object, the worker *)
(* threads it starts (_capture_thread, _run_thread), the shared sample     *)
(* buffer scope_data and the measurement labels.                           *)
(*                                                                         *)
(* A handler of the Tk main loop is one action (the main loop runs one     *)
(* handler at a time).  A worker thread advances one step per action; a    *)
(* step is the code between two points where the thread reads or writes    *)
(* state it shares with the main loop or with another thread.  A `with     *)
(* self.data_lock:` block is one step: the lock makes it atomic with       *)
(* respect to every other such block.                                      *)
(*                                                                         *)
(* Numbers.  A time value x is stored as the integer x * Milli (fixed       *)
(* point); a voltage is an integer number of volts.  The text of a label is *)
(* <<n>>, n the value shown scaled by the decimals of its format, and the  *)
(* placeholder text "----" is << >>.                                       *)
(*                                                                         *)
(* Three next-state relations share the variables and the operators.  Spec *)
(* is the connection, the worker threads and the display, one thread step  *)
(* at a time.  PanelSpec is the generator panel (entries, sliders, buttons) *)
(* with the connection its commands go through.  MeasSpec runs each        *)
(* producer as a whole, a serial capture on a complete device response, and *)
(* then the measurement engine, over wider sample values.                  *)
(***************************************************************************)
EXTENDS Integers, Sequences, FiniteSets, TLC

\* ---------------------------------------------------------------- bounds
\* Number of worker threads alive at the same time.
MaxThreads == 2
\* Longest sample list a capture accumulates before the device stops sending.
MaxLen == 2
\* Number of samples the demo synthesizer produces (1000 in the program).
DemoSamples == 2
\* Seconds of the capture deadline the model counts (5 in the program).
CaptureSeconds == 1
\* Steps the program can take in the 500 ms before the callback scheduled at
\* startup comes due.
StartupSteps == 2
\* Longest device response (in lines) a whole capture is run on.
MaxResponse == 3

\* ------------------------------------------------------------- constants
\* float(t) / 1000.0, line 661: milliseconds on the wire, seconds in the buffer.
\* It is also the fixed-point scale of stored time values, which makes that
\* division exact.
Milli == 1000
\* (crossings / duration) * 1000, line 726.
FreqFactor == 1000
\* np.linspace(0, 100, samples): the demo time axis ends at 100 (ms).
DemoSpan == 100
\* validate_and_update_freq, lines 396-404: the range and the default.
FreqMin == 1
FreqMax == 50000
FreqDefault == 1000
\* validate_and_update_amp, lines 411-419.
AmpMin == 0
AmpMax == 255
AmpDefault == 200

Threads == 1..MaxThreads

\* Numeric tokens the device sends in the time and voltage fields.
SampleTimes == {1}
Volts == {1}

VARIABLES
    ser,            \* self.ser: "None", "open" or "closed" (closed Serial object)
    connected,      \* self.connected
    demo_mode,      \* self.demo_mode
    running,        \* self.running
    auto_capture,   \* self.auto_capture
    connect_btn,    \* state of self.connect_btn: "normal" or "disabled"
    demo_btn,       \* state of self.demo_btn
    after_cb,       \* callback scheduled by check_startup with root.after(500, ..),
                    \* and the steps taken since
    scope_data,     \* self.scope_data
    meas_labels,    \* text of self.meas_labels[key]
    update_pending, \* an update_display scheduled with root.after(0, ..) is pending
    thr,            \* worker threads: position and locals of each
    last,           \* the step that led to this state, when a property names it
    freq_var,       \* content of self.freq_var, shared with the frequency entry
    amp_var,        \* content of self.amp_var, shared with the amplitude entry
    wave_var,       \* self.wave_var
    gen_active,     \* self.gen_active
    tx,             \* what the last generator handler wrote to the port
    outcome,        \* how the last generator handler ended: "ok", "TclError"
                    \* (uncaught), or "error_dialog" (lines 405 and 420)
    producer        \* what published the buffer, when a property names it

vars == <<ser, connected, demo_mode, running, auto_capture, connect_btn, demo_btn,
          after_cb, scope_data, meas_labels, update_pending, thr, last,
          freq_var, amp_var, wave_var, gen_active, tx, outcome, producer>>

gui_vars == <<ser, connected, demo_mode, running, auto_capture, connect_btn,
              demo_btn>>

\* The generator panel, and the record of the buffer's producer.
panel_vars == <<freq_var, amp_var, wave_var, gen_active, tx, outcome, producer>>

\* ------------------------------------------------------------ the labels
MeasKeys == {"vmax", "vmin", "vpp", "vavg", "freq"}

Placeholder == << >>

Text(n) == <<n>>

EmptyBuffer == [time |-> << >>, voltage |-> << >>]

\* ------------------------------------------------- the startup callback
NoCallback == [fn |-> "none", steps |-> 0]

\* A step other than the callback itself: before the callback is due.
Elapse ==
    IF after_cb = NoCallback
    THEN after_cb' = after_cb
    ELSE /\ after_cb.steps < StartupSteps
         /\ after_cb' = [after_cb EXCEPT !.steps = @ + 1]

\* ----------------------------------------------------------- the threads
IdleThread ==
    [pc |-> "idle", run |-> FALSE, capturing |-> FALSE,
     time_data |-> << >>, voltage_data |-> << >>, remaining |-> 0]

Alive(t) == thr[t].pc # "idle"

FreeSlots == {t \in Threads : ~Alive(t)}

\* Thread(target=..).start(): the new thread takes the lowest free slot.
NewSlot == CHOOSE t \in FreeSlots : \A u \in FreeSlots : t <= u

StartThread(pc0, isRun) ==
    /\ FreeSlots # {}
    /\ thr' = [thr EXCEPT ![NewSlot] = [IdleThread EXCEPT !.pc = pc0, !.run = isRun]]

\* ------------------------------------------------- the measurement engine
RECURSIVE SumSeq(_)
SumSeq(s) == IF s = << >> THEN 0 ELSE Head(s) + SumSeq(Tail(s))

MaxSeq(s) == CHOOSE x \in {s[i] : i \in 1..Len(s)} : \A i \in 1..Len(s) : s[i] <= x

MinSeq(s) == CHOOSE x \in {s[i] : i \in 1..Len(s)} : \A i \in 1..Len(s) : x <= s[i]

\* a / b rounded to the nearest integer, a >= 0, b > 0: the digits f"{x:.3f}"
\* and f"{x:.1f}" keep.
RoundDiv(a, b) == (2 * a + b) \div (2 * b)

\* Lines 720-723: i with voltage_data[i-1] < v_avg <= voltage_data[i], where
\* v_avg = SumSeq(v) / Len(v).
Crossings(v) ==
    Cardinality({i \in 2..Len(v) :
                    /\ v[i-1] * Len(v) < SumSeq(v)
                    /\ SumSeq(v) <= v[i] * Len(v)})

\* Lines 725-726: duration = time_data[-1] - time_data[0] (stored d = Milli * duration);
\* freq = (crossings / duration) * 1000 if duration > 0 else 0, shown with 1 decimal.
FreqText(time_data, voltage_data) ==
    LET d == time_data[Len(time_data)] - time_data[1]
    IN  IF d > 0
        THEN Text(RoundDiv(Crossings(voltage_data) * Milli * FreqFactor * 10, d))
        ELSE Text(0)

\* Lines 714-717 and 729-733: the five label texts of a buffer with voltage_data
\* non-empty.
Measure(time_data, voltage_data) ==
    [k \in MeasKeys |->
        CASE k = "vmax" -> Text(1000 * MaxSeq(voltage_data))
          [] k = "vmin" -> Text(1000 * MinSeq(voltage_data))
          [] k = "vpp"  -> Text(1000 * (MaxSeq(voltage_data) - MinSeq(voltage_data)))
          [] k = "vavg" -> Text(RoundDiv(1000 * SumSeq(voltage_data), Len(voltage_data)))
          [] k = "freq" -> FreqText(time_data, voltage_data)]

\* update_display, lines 699-733.  An empty time list returns at line 706.  The
\* plot is drawn at line 711 before the measurements: with lists of different
\* lengths the draw raises in the plotting library, or not (it broadcasts a list
\* of length 1), and max() of an empty list raises at line 714; an exception
\* leaves the labels as they were.
update_display ==
    LET time_data == scope_data.time
        voltage_data == scope_data.voltage
    IN  /\ \/ /\ time_data = << >>
              /\ meas_labels' = meas_labels
           \/ /\ time_data # << >>
              /\ Len(time_data) # Len(voltage_data)
              /\ meas_labels' = meas_labels
           \/ /\ time_data # << >>
              /\ voltage_data # << >>
              /\ meas_labels' = Measure(time_data, voltage_data)
        /\ UNCHANGED scope_data

\* clear_display without the loop of lines 744-745.
clear_display_keeps_labels ==
    /\ scope_data' = EmptyBuffer
    /\ meas_labels' = meas_labels

\* clear_display, lines 735-745.
clear_display ==
    /\ scope_data' = EmptyBuffer
    /\ meas_labels' = [k \in MeasKeys |-> Placeholder]

\* ------------------------------------------------------ demo synthesizer
\* np.linspace(0, 100, samples), line 606: sample k of DemoSamples, in ms.
DemoTime == [k \in 1..DemoSamples |-> ((k - 1) * DemoSpan * Milli) \div (DemoSamples - 1)]

\* Lines 608-627: the signal plus unbounded Gaussian noise; any voltage list of
\* the sample count, over the voltages V, can result.
Synthesized(V) == {[time |-> DemoTime, voltage |-> v] : v \in [1..DemoSamples -> V]}

DemoBuffers == Synthesized(Volts)

\* Lines 629-635: publish under the lock, schedule the display.
PublishDemo(buffers) ==
    /\ scope_data' \in buffers
    /\ update_pending' = TRUE

\* generate_demo_data, lines 603-635.
generate_demo_data == PublishDemo(DemoBuffers)

\* ------------------------------------------------ connection, demo, run
\* toggle_run, lines 677-687.
toggle_run ==
    IF ~running
    THEN /\ running' = TRUE
         /\ auto_capture' = TRUE
         /\ StartThread("r_loop", TRUE)
    ELSE /\ running' = FALSE
         /\ auto_capture' = FALSE
         /\ thr' = thr

\* connect, lines 493-516.  With no port selected (line 496) or when
\* serial.Serial raises (line 515) a dialog is shown and nothing changes;
\* otherwise the port is open.
connect ==
    \/ UNCHANGED <<ser, connected, demo_mode, demo_btn>>
    \/ /\ ser' = "open"
       /\ connected' = TRUE
       /\ demo_mode' = FALSE
       /\ demo_btn' = "disabled"

\* disconnect, lines 518-533.
disconnect ==
    /\ IF running THEN toggle_run ELSE UNCHANGED <<running, auto_capture, thr>>
    /\ ser' = IF ser = "None" THEN "None" ELSE "closed"
    /\ connected' = FALSE
    /\ demo_btn' = "normal"
    /\ UNCHANGED <<demo_mode, connect_btn>>

\* toggle_connection, lines 486-491.
toggle_connection ==
    IF connected
    THEN disconnect
    ELSE connect /\ UNCHANGED <<running, auto_capture, thr, connect_btn>>

\* toggle_demo_mode, lines 535-557.
toggle_demo_mode ==
    /\ demo_mode' = ~demo_mode
    /\ connect_btn' = IF ~demo_mode THEN "disabled" ELSE "normal"
    /\ UNCHANGED <<ser, connected, running, auto_capture, demo_btn, thr>>

\* capture_single, lines 591-601.
capture_single ==
    IF ~connected /\ ~demo_mode
    THEN UNCHANGED <<scope_data, update_pending, thr>>
    ELSE IF demo_mode
         THEN generate_demo_data /\ thr' = thr
         ELSE StartThread("c_write", FALSE) /\ UNCHANGED <<scope_data, update_pending>>

\* ------------------------------------------------------ generator panel
\* The content of a Tk IntVar that an Entry edits: the text of an integer, or
\* text that is no number.
IntText(n) == [int |-> TRUE, val |-> n]

BadText == [int |-> FALSE, val |-> 0]

\* f"FREQ:{freq}", f"AMP:{amp}", f"WAVE:{...}", "GEN:ON", "GEN:OFF": the command
\* name, and its argument as a number or as a word.
Command(name, n, word) == [cmd |-> name, n |-> n, word |-> word]

Waves == {"SINE", "SQUARE", "TRIANGLE", "SAWTOOTH"}

\* send_command, lines 559-574: nothing is written in demo mode or while not
\* connected; the write raises on a closed port and can raise on an open one,
\* and line 573 swallows the exception.
send_command(command) ==
    IF demo_mode
    THEN tx' = << >>
    ELSE IF ~connected \/ ser = "None"
         THEN tx' = << >>
         ELSE \/ ser = "open" /\ tx' = <<command>>
              \/ tx' = << >>

\* update_frequency, lines 436-440, fv the content of freq_var: IntVar.get()
\* raises TclError on text that is no number.
update_frequency(fv) ==
    IF fv.int
    THEN send_command(Command("FREQ", fv.val, "")) /\ outcome' = "ok"
    ELSE tx' = << >> /\ outcome' = "TclError"

\* update_amplitude, lines 442-446.
update_amplitude(av) ==
    IF av.int
    THEN send_command(Command("AMP", av.val, "")) /\ outcome' = "ok"
    ELSE tx' = << >> /\ outcome' = "TclError"

\* Lines 396-399 and 411-414.
Clamp(x, lo, hi) == IF x < lo THEN lo ELSE IF x > hi THEN hi ELSE x

\* validate_and_update_freq, lines 392-405.  self.freq_var.get() at line 395
\* returns an int or raises TclError (tkinter's IntVar.get), which is no
\* ValueError: line 403 does not catch it, lines 404-405 never run, and the
\* exception leaves the handler with the variable as it was.
validate_and_update_freq ==
    IF freq_var.int
    THEN LET freq == Clamp(freq_var.val, FreqMin, FreqMax)
         IN  /\ freq_var' = IntText(freq)
             /\ update_frequency(IntText(freq))
    ELSE /\ freq_var' = freq_var
         /\ tx' = << >>
         /\ outcome' = "TclError"

\* validate_and_update_amp, lines 407-420.
validate_and_update_amp ==
    IF amp_var.int
    THEN LET amp == Clamp(amp_var.val, AmpMin, AmpMax)
         IN  /\ amp_var' = IntText(amp)
             /\ update_amplitude(IntText(amp))
    ELSE /\ amp_var' = amp_var
         /\ tx' = << >>
         /\ outcome' = "TclError"

\* set_frequency, lines 430-434.
set_frequency(freq) ==
    /\ freq_var' = IntText(freq)
    /\ update_frequency(IntText(freq))

\* update_waveform, lines 576-578, w the content of wave_var.
update_waveform(w) ==
    /\ send_command(Command("WAVE", 0, w))
    /\ outcome' = "ok"

\* toggle_generator, lines 580-589.
toggle_generator ==
    /\ gen_active' = ~gen_active
    /\ send_command(Command("GEN", 0, IF ~gen_active THEN "ON" ELSE "OFF"))
    /\ outcome' = "ok"

\* -------------------------------------------------- serial capture reader
\* A field of a line is a numeric token (float() accepts it) or not.
Num(n) == [num |-> TRUE, val |-> n]

NaN == [num |-> FALSE, val |-> 0]

\* A decoded, stripped line: its text when it is a sentinel, and the fields
\* line.split(',') gives.
SentinelLine(text) == [text |-> text, fields |-> <<NaN>>]

DataLine(fields) == [text |-> "", fields |-> fields]

WellFormedLines == {DataLine(<<Num(t), Num(v)>>) : t \in SampleTimes, v \in Volts}

\* No comma, two commas, a time field that is no number, a voltage field that
\* is no number.
MalformedLines ==
    {DataLine(<<NaN>>)}
    \cup {DataLine(<<Num(t), Num(v), Num(v)>>) : t \in SampleTimes, v \in Volts}
    \cup {DataLine(<<NaN, Num(v)>>) : v \in Volts}
    \cup {DataLine(<<Num(t), NaN>>) : t \in SampleTimes}

DeviceLines ==
    {SentinelLine("SCOPE_START"), SentinelLine("SCOPE_END")}
    \cup WellFormedLines \cup MalformedLines

\* ',' in line, line 658.
HasComma(line) == Len(line.fields) >= 2

\* float(t) / 1000.0, line 661, as a stored time value.
Seconds(t) == (t * Milli) \div 1000

\* Lines 659-664: t, v = line.split(','); the two appends in program order; a
\* ValueError raised by the unpacking or by float() is swallowed where it is
\* raised, so what was appended before it stays.
ParseSample(th, line) ==
    IF Len(line.fields) # 2
    THEN th
    ELSE IF ~line.fields[1].num
         THEN th
         ELSE LET th1 == [th EXCEPT !.time_data = Append(@, Seconds(line.fields[1].val))]
              IN  IF ~line.fields[2].num
                  THEN th1
                  ELSE [th1 EXCEPT !.voltage_data = Append(@, line.fields[2].val)]

\* Lines 652-664: the locals of the thread after a line other than SCOPE_END.
Accumulate(th, line) ==
    IF line.text = "SCOPE_START"
    THEN [th EXCEPT !.capturing = TRUE, !.time_data = << >>, !.voltage_data = << >>]
    ELSE IF th.capturing /\ HasComma(line)
         THEN ParseSample(th, line)
         ELSE th

\* The thread record after _capture_thread returns: to _run_thread's sleep at
\* line 697 before the next loop test, or the thread ends (capture_single's).
Returned(th) ==
    IF th.run THEN [IdleThread EXCEPT !.pc = "r_loop", !.run = TRUE] ELSE IdleThread

\* Lines 666-672: publish the locals under the lock, schedule the display.
Publish(t) ==
    /\ scope_data' = [time |-> thr[t].time_data, voltage |-> thr[t].voltage_data]
    /\ update_pending' = TRUE
    /\ thr' = [thr EXCEPT ![t] = Returned(thr[t])]

\* Abort with the publication in a finally clause.
AbortPublishes(t) ==
    /\ scope_data' = [time |-> thr[t].time_data, voltage |-> thr[t].voltage_data]
    /\ update_pending' = TRUE
    /\ thr' = [thr EXCEPT ![t] = Returned(thr[t])]

\* Lines 674-675: an exception anywhere in the try block ends the capture.
Abort(t) ==
    /\ thr' = [thr EXCEPT ![t] = Returned(thr[t])]
    /\ UNCHANGED <<scope_data, update_pending>>

\* Line 640, self.ser.write(b"SCOPE\n"), then lines 642-646.  The write raises
\* on a closed port, and can raise on an open one (I/O error).
CaptureWrite(t) ==
    /\ thr[t].pc = "c_write"
    /\ \/ /\ ser = "open"
          /\ thr' = [thr EXCEPT ![t].pc = "c_loop", ![t].remaining = CaptureSeconds]
          /\ UNCHANGED <<scope_data, update_pending>>
          /\ last' = "other"
       \/ /\ Abort(t)
          /\ last' = "capture_fail"
    /\ Elapse
    /\ UNCHANGED panel_vars
    /\ UNCHANGED <<gui_vars, meas_labels>>

\* Lines 650-664 for a line other than SCOPE_END: the locals are updated and
\* the loop goes on.
ReadLine(t, line) ==
    /\ Len(Accumulate(thr[t], line).time_data) <= MaxLen
    /\ thr' = [thr EXCEPT ![t] = Accumulate(thr[t], line)]

\* One iteration of the loop of lines 648-664 before the deadline: in_waiting
\* is 0, or a line is read and handled; in_waiting raises on a closed port, and
\* readline() or decode() can raise on an open one; SCOPE_END ends the loop and
\* the locals are published.
CapturePoll(t) ==
    /\ thr[t].pc = "c_loop"
    /\ thr[t].remaining > 0
    /\ \/ /\ ser = "open"
          /\ UNCHANGED <<thr, scope_data, update_pending>>
          /\ last' = "other"
       \/ /\ ser = "open"
          /\ \E line \in DeviceLines \ {SentinelLine("SCOPE_END")} : ReadLine(t, line)
          /\ UNCHANGED <<scope_data, update_pending>>
          /\ last' = "other"
       \/ /\ ser = "open"
          /\ Publish(t)
          /\ last' = "capture_end"
       \/ /\ Abort(t)
          /\ last' = "capture_fail"
    /\ Elapse
    /\ UNCHANGED panel_vars
    /\ UNCHANGED <<gui_vars, meas_labels>>

\* CaptureDeadline with the partial data dropped at the deadline.
CaptureDeadlineDrops(t) ==
    /\ thr[t].pc = "c_loop"
    /\ thr[t].remaining = 0
    /\ Abort(t)
    /\ last' = "capture_timeout"
    /\ Elapse
    /\ UNCHANGED panel_vars
    /\ UNCHANGED <<gui_vars, meas_labels>>

\* Line 648 when the deadline has passed: the loop ends and the locals are
\* published.
CaptureDeadline(t) ==
    /\ thr[t].pc = "c_loop"
    /\ thr[t].remaining = 0
    /\ Publish(t)
    /\ last' = "capture_timeout"
    /\ Elapse
    /\ UNCHANGED panel_vars
    /\ UNCHANGED <<gui_vars, meas_labels>>

\* A second passes for every capture that waits for its deadline.
Tick ==
    /\ \E t \in Threads : thr[t].pc = "c_loop" /\ thr[t].remaining > 0
    /\ thr' = [t \in Threads |->
                 IF thr[t].pc = "c_loop" /\ thr[t].remaining > 0
                 THEN [thr[t] EXCEPT !.remaining = @ - 1]
                 ELSE thr[t]]
    /\ last' = "other"
    /\ Elapse
    /\ UNCHANGED panel_vars
    /\ UNCHANGED <<gui_vars, scope_data, meas_labels, update_pending>>

\* ------------------------------------------------------- the run loop
\* RunCheck with the flags tested only when the thread starts (while True).
RunCheckNoTest(t) ==
    /\ thr[t].pc = "r_loop"
    /\ thr' = [thr EXCEPT ![t].pc = "r_body"]
    /\ last' = "other"
    /\ Elapse
    /\ UNCHANGED panel_vars
    /\ UNCHANGED <<gui_vars, scope_data, meas_labels, update_pending>>

\* Line 691: the loop test, made when the thread starts and when the sleep of
\* line 697 that ends an iteration is over.
RunCheck(t) ==
    /\ thr[t].pc = "r_loop"
    /\ IF running /\ auto_capture
       THEN thr' = [thr EXCEPT ![t].pc = "r_body"] /\ last' = "other"
       ELSE thr' = [thr EXCEPT ![t] = IdleThread] /\ last' = "run_exit"
    /\ Elapse
    /\ UNCHANGED panel_vars
    /\ UNCHANGED <<gui_vars, scope_data, meas_labels, update_pending>>

\* Lines 692-696: one acquisition, demo or serial, or none; then the sleep.
RunBody(t) ==
    /\ thr[t].pc = "r_body"
    /\ IF demo_mode
       THEN /\ generate_demo_data
            /\ thr' = [thr EXCEPT ![t].pc = "r_loop"]
       ELSE /\ IF connected
               THEN thr' = [thr EXCEPT ![t].pc = "c_write"]
               ELSE thr' = [thr EXCEPT ![t].pc = "r_loop"]
            /\ UNCHANGED <<scope_data, update_pending>>
    /\ last' = "other"
    /\ Elapse
    /\ UNCHANGED panel_vars
    /\ UNCHANGED <<gui_vars, meas_labels>>

\* ------------------------------------------------ main-loop handlers
\* The CONNECT button, line 105.
ClickConnect ==
    /\ connect_btn = "normal"
    /\ toggle_connection
    /\ last' = "other"
    /\ Elapse
    /\ UNCHANGED panel_vars
    /\ UNCHANGED <<scope_data, meas_labels, update_pending>>

\* The DEMO MODE button, line 122.
ClickDemo ==
    /\ demo_btn = "normal"
    /\ toggle_demo_mode
    /\ last' = "other"
    /\ Elapse
    /\ UNCHANGED panel_vars
    /\ UNCHANGED <<scope_data, meas_labels, update_pending>>

\* The callback check_startup scheduled (lines 468 and 477) comes due.
StartupCallback ==
    /\ after_cb # NoCallback
    /\ after_cb' = NoCallback
    /\ IF after_cb.fn = "toggle_demo_mode" THEN toggle_demo_mode ELSE toggle_connection
    /\ last' = "other"
    /\ UNCHANGED panel_vars
    /\ UNCHANGED <<scope_data, meas_labels, update_pending>>

\* The SINGLE button, line 275.
ClickSingle ==
    /\ capture_single
    /\ last' = "other"
    /\ Elapse
    /\ UNCHANGED panel_vars
    /\ UNCHANGED <<gui_vars, meas_labels>>

\* The RUN / STOP button, line 284.
ClickRun ==
    /\ toggle_run
    /\ last' = "other"
    /\ Elapse
    /\ UNCHANGED panel_vars
    /\ UNCHANGED <<ser, connected, demo_mode, connect_btn, demo_btn, scope_data,
                   meas_labels, update_pending>>

\* The CLEAR button, line 293.
ClickClear ==
    /\ clear_display
    /\ last' = "clear_display"
    /\ Elapse
    /\ UNCHANGED panel_vars
    /\ UNCHANGED <<gui_vars, update_pending, thr>>

\* A scheduled update_display runs (lines 635 and 672).
RunUpdateDisplay ==
    /\ update_pending
    /\ update_pending' = FALSE
    /\ update_display
    /\ last' = "other"
    /\ Elapse
    /\ UNCHANGED panel_vars
    /\ UNCHANGED <<gui_vars, thr>>

\* ------------------------------------------- generator panel handlers
\* Texts the user types into the entries, and positions of the sliders
\* (tk.Scale from_ .. to, lines 196 and 249).
FreqEntries == {IntText(-5), IntText(700), IntText(60000), BadText}

AmpEntries == {IntText(-1), IntText(128), IntText(300), BadText}

SliderFreqs == {FreqMin, FreqMax}

SliderAmps == {AmpMin, AmpMax}

\* The quick frequency buttons, line 203.
QuickFreqs == {100, 500, 1000, 5000}

conn_vars == <<ser, connected, demo_mode, running, auto_capture, connect_btn,
               demo_btn, scope_data, meas_labels, update_pending, thr, producer>>

\* The user edits the frequency entry, whose textvariable is freq_var (line
\* 173); on_freq_key_release, lines 382-385, does nothing for a key other than
\* Return.
EditFreq ==
    /\ freq_var' \in FreqEntries
    /\ last' = "other"
    /\ Elapse
    /\ UNCHANGED <<conn_vars, amp_var, wave_var, gen_active, tx, outcome>>

\* Return or focus-out in the frequency entry, or its SET button (lines 179,
\* 180 and 189).
SetFreq ==
    /\ validate_and_update_freq
    /\ last' = "other"
    /\ Elapse
    /\ UNCHANGED <<conn_vars, amp_var, wave_var, gen_active>>

\* The frequency slider moves: update_frequency_from_slider, lines 422-424.
SlideFreq ==
    /\ \E f \in SliderFreqs :
          /\ freq_var' = IntText(f)
          /\ update_frequency(IntText(f))
    /\ last' = "other"
    /\ Elapse
    /\ UNCHANGED <<conn_vars, amp_var, wave_var, gen_active>>

\* A quick frequency button, line 205.
QuickFreq ==
    /\ \E f \in QuickFreqs : set_frequency(f)
    /\ last' = "other"
    /\ Elapse
    /\ UNCHANGED <<conn_vars, amp_var, wave_var, gen_active>>

\* The user edits the amplitude entry (line 229).
EditAmp ==
    /\ amp_var' \in AmpEntries
    /\ last' = "other"
    /\ Elapse
    /\ UNCHANGED <<conn_vars, freq_var, wave_var, gen_active, tx, outcome>>

\* Return or focus-out in the amplitude entry, or its SET button (lines 235,
\* 236 and 242).
SetAmp ==
    /\ validate_and_update_amp
    /\ last' = "other"
    /\ Elapse
    /\ UNCHANGED <<conn_vars, freq_var, wave_var, gen_active>>

\* The amplitude slider moves: update_amplitude_from_slider, lines 426-428.
SlideAmp ==
    /\ \E a \in SliderAmps :
          /\ amp_var' = IntText(a)
          /\ update_amplitude(IntText(a))
    /\ last' = "other"
    /\ Elapse
    /\ UNCHANGED <<conn_vars, freq_var, wave_var, gen_active>>

\* A waveform radio button, lines 151-156: it sets wave_var, then runs its
\* command.
SelectWave ==
    /\ \E w \in Waves :
          /\ wave_var' = w
          /\ update_waveform(w)
    /\ last' = "other"
    /\ Elapse
    /\ UNCHANGED <<conn_vars, freq_var, amp_var, gen_active>>

\* The OUTPUT button, line 257.
ClickOutput ==
    /\ toggle_generator
    /\ last' = "other"
    /\ Elapse
    /\ UNCHANGED <<conn_vars, freq_var, amp_var, wave_var>>

\* ------------------------------------- a whole capture, and its display
\* Voltages and times (ms tokens on the wire) of the responses a whole capture
\* is run on.
MeasVolts == {1, 3}

MeasTimes == {0, 1000}

MeasLines ==
    {SentinelLine("SCOPE_START"), SentinelLine("SCOPE_END"), DataLine(<<NaN>>)}
    \cup {DataLine(<<Num(t), Num(v)>>) : t \in MeasTimes, v \in MeasVolts}

Responses == UNION {[1..n -> MeasLines] : n \in 0..MaxResponse}

\* The loop of lines 648-664 over the lines of a response: SCOPE_END leaves
\* the loop, and so does the deadline when the response has no more lines.
RECURSIVE RunLines(_, _)
RunLines(th, lines) ==
    IF lines = << >>
    THEN th
    ELSE IF Head(lines).text = "SCOPE_END"
         THEN th
         ELSE RunLines(Accumulate(th, Head(lines)), Tail(lines))

\* _capture_thread, lines 637-672, on a response read without an I/O error.
MeasCapture ==
    /\ \E r \in Responses :
          LET th == RunLines(IdleThread, r)
          IN  scope_data' = [time |-> th.time_data, voltage |-> th.voltage_data]
    /\ update_pending' = TRUE
    /\ producer' = "serial"
    /\ last' = "other"
    /\ UNCHANGED <<gui_vars, after_cb, meas_labels, thr, freq_var, amp_var,
                   wave_var, gen_active, tx, outcome>>

\* generate_demo_data, lines 603-635.
MeasDemo ==
    /\ PublishDemo(Synthesized(MeasVolts))
    /\ producer' = "demo"
    /\ last' = "other"
    /\ UNCHANGED <<gui_vars, after_cb, meas_labels, thr, freq_var, amp_var,
                   wave_var, gen_active, tx, outcome>>

\* The scheduled update_display runs (lines 635 and 672).
MeasDisplay ==
    /\ update_pending
    /\ update_pending' = FALSE
    /\ update_display
    /\ last' = "other"
    /\ UNCHANGED <<gui_vars, after_cb, thr, panel_vars>>

\* ------------------------------------------------------ specification
\* __init__, lines 13-37, and the outcome of check_startup, lines 448-477: the
\* user's answer to the startup dialog schedules a callback, or none.
Init ==
    /\ ser = "None"
    /\ connected = FALSE
    /\ demo_mode = FALSE
    /\ running = FALSE
    /\ auto_capture = FALSE
    /\ connect_btn = "normal"
    /\ demo_btn = "normal"
    /\ after_cb \in {[fn |-> f, steps |-> 0] :
                        f \in {"none", "toggle_demo_mode", "toggle_connection"}}
    /\ scope_data = EmptyBuffer
    /\ meas_labels = [k \in MeasKeys |-> Placeholder]
    /\ update_pending = FALSE
    /\ thr = [t \in Threads |-> IdleThread]
    /\ last = "init"
    /\ freq_var = IntText(1000)
    /\ amp_var = IntText(200)
    /\ wave_var = "SINE"
    /\ gen_active = FALSE
    /\ tx = << >>
    /\ outcome = "ok"
    /\ producer = "none"

ThreadStep(t) ==
    \/ RunCheck(t)
    \/ RunBody(t)
    \/ CaptureWrite(t)
    \/ CapturePoll(t)
    \/ CaptureDeadline(t)

Next ==
    \/ ClickConnect
    \/ ClickDemo
    \/ StartupCallback
    \/ ClickSingle
    \/ ClickRun
    \/ ClickClear
    \/ RunUpdateDisplay
    \/ Tick
    \/ \E t \in Threads : ThreadStep(t)

Spec == Init /\ [][Next]_vars

\* Threads are scheduled, time passes and the main loop runs a callback that
\* is due.
Fairness ==
    /\ WF_vars(Tick)
    /\ WF_vars(StartupCallback)
    /\ \A t \in Threads : WF_vars(ThreadStep(t))

LiveSpec == Init /\ [][Next]_vars /\ Fairness

\* The generator panel with the connection it sends through.
PanelNext ==
    \/ EditFreq
    \/ SetFreq
    \/ SlideFreq
    \/ QuickFreq
    \/ EditAmp
    \/ SetAmp
    \/ SlideAmp
    \/ SelectWave
    \/ ClickOutput
    \/ ClickConnect
    \/ ClickDemo
    \/ StartupCallback

PanelSpec == Init /\ [][PanelNext]_vars

\* The two producers, each run as a whole, and the measurement engine.
MeasNext ==
    \/ MeasCapture
    \/ MeasDemo
    \/ MeasDisplay

MeasSpec == Init /\ [][MeasNext]_vars

\* ------------------------------------------------------------ properties
InCapture(t) == thr[t].pc \in {"c_write", "c_loop"}

RunThreads == {t \in Threads : thr[t].run}

AllPlaceholder == \A k \in MeasKeys : meas_labels[k] = Placeholder

\* C1: the time and voltage lists of the shared buffer have the same length
\* in every reachable state.
C1_EqualLength == Len(scope_data.time) = Len(scope_data.voltage)

\* C2: connected and demo_mode are never both true, and while one mode is
\* active the button that enters the other is disabled.
C2_ExclusiveModes ==
    /\ ~(connected /\ demo_mode)
    /\ connected => demo_btn = "disabled"
    /\ demo_mode => connect_btn = "disabled"

\* C3: at most one _run_thread is alive at any time.
C3_SingleRunThread == Cardinality(RunThreads) <= 1

\* C4: once the run is switched off, every run-loop thread exits unless the run
\* is started again (no run-loop thread stays alive for ever with the run off),
\* and a thread that makes its loop test with the run off starts no further
\* iteration.
C4_CooperativeStop ==
    /\ \A t \in Threads : []<>(running \/ ~thr[t].run)
    /\ [][\A t \in Threads :
            (thr[t].pc = "r_loop" /\ ~(running /\ auto_capture))
                => thr'[t].pc \in {"r_loop", "idle"}]_vars

C4_Witness == last = "run_exit" /\ ~running /\ RunThreads = {}

\* C5: a worker thread calls write, in_waiting or readline on the port handle
\* only while the port is open.
C5_PortOwned ==
    [][\A t \in Threads : (CaptureWrite(t) \/ CapturePoll(t)) => ser = "open"]_vars

\* C6: every serial capture ends (no thread stays in a capture for ever); one
\* that ends by SCOPE_END or by the deadline publishes the samples it
\* accumulated as the shared buffer.
C6_CaptureTerminates ==
    /\ \A t \in Threads : []<>~InCapture(t)
    /\ [][last' \in {"capture_timeout", "capture_end"} =>
            \E t \in Threads :
                /\ thr[t].pc = "c_loop"
                /\ last' = "capture_timeout" <=> thr[t].remaining = 0
                /\ ~InCapture(t)'
                /\ scope_data' = [time |-> thr[t].time_data,
                                  voltage |-> thr[t].voltage_data]
                /\ update_pending']_vars

C6_Witness ==
    /\ last = "capture_timeout"
    /\ scope_data.time # << >>
    /\ scope_data.voltage # << >>

\* C7: a malformed line read during a capture leaves the accumulated lists as
\* they were and the capture goes on; a well-formed line read while capturing
\* is appended to both lists.
C7_MalformedSkipped ==
    [][\A t \in Threads :
        /\ \A line \in MalformedLines :
              (thr[t].pc = "c_loop" /\ ReadLine(t, line)) => thr'[t] = thr[t]
        /\ \A line \in WellFormedLines :
              (thr[t].pc = "c_loop" /\ thr[t].capturing /\ ReadLine(t, line)) =>
                  /\ Len(thr'[t].time_data) = Len(thr[t].time_data) + 1
                  /\ Len(thr'[t].voltage_data) = Len(thr[t].voltage_data) + 1]_vars

\* C8: a capture that fails publishes nothing and leaves the shared buffer as
\* it was; its thread returns to the run loop, or ends if it is a single
\* capture, and no other thread is affected.
C8_FailedCaptureKeepsBuffer ==
    [][last' = "capture_fail" =>
        /\ scope_data' = scope_data
        /\ update_pending' = update_pending
        /\ \E t \in Threads :
              /\ InCapture(t)
              /\ thr'[t].pc = IF thr[t].run THEN "r_loop" ELSE "idle"
              /\ thr'[t].run = thr[t].run
              /\ \A u \in Threads \ {t} : thr'[u] = thr[u]]_vars

C8_Witness ==
    /\ last = "capture_fail"
    /\ scope_data.time # << >>
    /\ \E t \in Threads : thr[t].run /\ thr[t].pc = "r_loop"

\* C9: after update_display has run on an empty buffer every measurement
\* label shows the placeholder.
C9_EmptyShowsPlaceholder ==
    [][(RunUpdateDisplay /\ scope_data.time = << >>) => AllPlaceholder']_vars

C11_EntryValidated ==
    [][/\ SetFreq =>
            IF freq_var.int
            THEN /\ freq_var' = IntText(Clamp(freq_var.val, 1, 50000))
                 /\ freq_var'.val \in 1..50000
                 /\ tx' \in {<< >>, <<Command("FREQ", freq_var'.val, "")>>}
            ELSE /\ freq_var' = IntText(1000)
                 /\ outcome' = "error_dialog"
                 /\ tx' = << >>
       /\ SetAmp =>
            IF amp_var.int
            THEN /\ amp_var' = IntText(Clamp(amp_var.val, 0, 255))
                 /\ amp_var'.val \in 0..255
                 /\ tx' \in {<< >>, <<Command("AMP", amp_var'.val, "")>>}
            ELSE /\ amp_var' = IntText(200)
                 /\ outcome' = "error_dialog"
                 /\ tx' = << >>]_vars

\* C12: a change of the waveform, the frequency, the amplitude or the output
\* state made by a generator handler is written to the port as the matching
\* command with the new value.
C12_ChangesPushed ==
    [][/\ (SelectWave /\ wave_var' # wave_var) =>
              tx' = <<Command("WAVE", 0, wave_var')>>
       /\ ((SlideFreq \/ QuickFreq \/ SetFreq) /\ freq_var' # freq_var) =>
              tx' = <<Command("FREQ", freq_var'.val, "")>>
       /\ ((SlideAmp \/ SetAmp) /\ amp_var' # amp_var) =>
              tx' = <<Command("AMP", amp_var'.val, "")>>
       /\ (ClickOutput /\ gen_active' # gen_active) =>
              tx' = <<Command("GEN", 0, IF gen_active' THEN "ON" ELSE "OFF")>>]_vars

\* C13: for a non-empty buffer the displayed frequency is the number of rising
\* mean-crossings divided by the buffer's time span in seconds (a demo buffer
\* holds milliseconds, a serial one seconds), and 0 when the span is zero.
C13_FrequencyPerSecond ==
    [][(MeasDisplay /\ scope_data.time # << >>
                    /\ Len(scope_data.time) = Len(scope_data.voltage)) =>
          LET d == scope_data.time[Len(scope_data.time)] - scope_data.time[1]
              seconds == IF producer = "demo" THEN d \div 1000 ELSE d
          IN  /\ d > 0 => meas_labels'.freq =
                    Text(RoundDiv(Crossings(scope_data.voltage) * Milli * 10, seconds))
              /\ d = 0 => meas_labels'.freq = Text(0)]_vars

\* A step of the Tk main loop: a button handler or a scheduled callback.
GuiStep ==
    \/ ClickConnect
    \/ ClickDemo
    \/ StartupCallback
    \/ ClickSingle
    \/ ClickRun
    \/ ClickClear
    \/ RunUpdateDisplay

\* C14: the shared buffer is read and replaced only under data_lock, which one
\* thread holds at a time (every `with self.data_lock:` block is one step
\* here), and the main-loop thread only reads the buffer: none of its steps
\* replaces scope_data.
C14_GuiOnlyReads == [][GuiStep => scope_data' = scope_data]_vars

\* C15: a capture accumulates exactly the well-formed samples received after
\* its most recent SCOPE_START (a line other than SCOPE_END empties the lists
\* when it is SCOPE_START, extends them by its sample when it is well-formed
\* and the capture has started, and leaves them alone otherwise); its
\* publication replaces the buffer by those lists; and the buffer changes only
\* by a publication or a clear.
C15_OneCapturePerBuffer ==
    [][LET ExpectedLists(th, line) ==
               IF line.text = "SCOPE_START"
               THEN [time |-> << >>, voltage |-> << >>]
               ELSE IF th.capturing /\ line \in WellFormedLines
                    THEN [time |-> Append(th.time_data, Seconds(line.fields[1].val)),
                          voltage |-> Append(th.voltage_data, line.fields[2].val)]
                    ELSE [time |-> th.time_data, voltage |-> th.voltage_data]
       IN  /\ \A t \in Threads :
                 \A line \in DeviceLines \ {SentinelLine("SCOPE_END")} :
                    (thr[t].pc = "c_loop" /\ ReadLine(t, line)) =>
                        /\ thr'[t].time_data = ExpectedLists(thr[t], line).time
                        /\ thr'[t].voltage_data = ExpectedLists(thr[t], line).voltage
           /\ last' \in {"capture_timeout", "capture_end"} =>
                  \E t \in Threads :
                      /\ thr[t].pc = "c_loop"
                      /\ scope_data'.time = thr[t].time_data
                      /\ scope_data'.voltage = thr[t].voltage_data
           /\ scope_data' # scope_data =>
                  \/ last' \in {"capture_timeout", "capture_end", "clear_display"}
                  \/ demo_mode /\ scope_data' \in DemoBuffers]_vars

\* C16: at most one thread at a time is between the SCOPE write and the end of
\* the line-reading loop of _capture_thread.
C16_SingleCapture == Cardinality({t \in Threads : InCapture(t)}) <= 1

\* C17: running and auto_capture are equal, and a run is on only while
\* connected or in demo mode.
C17_RunOnlyInDataMode ==
    /\ running = auto_capture
    /\ running => (connected \/ demo_mode)

====
